---- MODULE Spec2Model ----
(***************************************************************************)
(* A model of package sparql (sparql.go): the construction of a Client    *)
(* with functional options (New), the options themselves, Close and Ping. *)
(*                                                                         *)
(* Durations are whole seconds.  An error value is a record                *)
(* [err, code]; the nil error is NilErr.                                   *)
(***************************************************************************)
EXTENDS Integers, Sequences, FiniteSets, TLC

VARIABLES
    callers,        \* the goroutines that use the client after New
    endpoint,       \* New's argument endpoint
    opts,           \* New's argument opts
    newPc,          \* position of the goroutine that runs New
    i,              \* index of the range loop of New (1-based)
    applied,        \* history: indices of opts whose function has been called
    dialer,         \* New's local variable dialer, which DialContext is bound to
    client,         \* the Client New allocates
    newRet,         \* what New returned: [client, err]
    pc,             \* position of each caller
    op,             \* the operation each caller runs, or ran last
    ret,            \* the value the last operation of each caller returned
    calls,          \* number of operations invoked so far
    closedAtCall,   \* history: the handle was nil when the caller's operation began
    okAtCall,       \* history: value of okCloses when the caller's operation began
    okCloses,       \* history: number of Close calls that returned nil
    closeCalls,     \* history: number of Close calls invoked
    poolReleases,   \* number of CloseIdleConnections calls on the transport
    tab,            \* Close/Do local: type word read from HTTPClient.Transport
    transport,      \* Close/Do local: data word read from HTTPClient.Transport
    stored,         \* Close local: the word of the handle line 102 has stored
    ctx,            \* Ping's argument ctx
    resp,           \* Ping local: the response Do returned, or NoResp
    doErr,          \* Ping local: the error Do returned
    deferred,       \* Ping local: the deferred LogCloseError is registered
    pending,        \* Ping local: the value of the return statement being run
    bodyReleases,   \* number of times the body of resp has been closed
    closeFailed,    \* the close of the body of resp returned an error
    logged          \* number of close errors the Logger has logged for resp

newVars == <<endpoint, opts, newPc, i, applied, dialer, client, newRet>>
callVars == <<pc, op, ret, calls, closedAtCall, okAtCall, okCloses, closeCalls,
              poolReleases, tab, transport, stored>>
pingVars == <<ctx, resp, doErr, deferred, pending, bodyReleases, closeFailed,
              logged>>
vars == <<callers, newVars, callVars, pingVars>>

----
\* Bounds of the model.
MaxOpts == 3        \* longest option list given to New (construction runs)
MaxLifeOpts == 1    \* longest option list given to New (lifecycle runs)
MaxCalls == 3       \* operations invoked on one client

----
\* Values.
NilErr == [err |-> "nil", code |-> 0]
Err(msg) == [err |-> msg, code |-> 0]
ErrAlreadyClosed == Err("already closed")
ErrUnknownRoundTripper == Err("unknown RoundTripper")
ErrStatus(code) == [err |-> "SPARQL ping error. status code", code |-> code]
ErrOption == Err("option failed")
ErrNewRequest == Err("parse endpoint")
ErrContext == Err("context done")
ErrDial == Err("dial refused")
Panic == Err("panic: nil pointer dereference")

StatusOK == 200

\* The handle HTTPClient.Transport is an interface value: a type word and a
\* data word.
NilHandle == [tab |-> "nil", data |-> "nil"]
OwnHandle == [tab |-> "*http.Transport", data |-> "&client.transport"]
\* A RoundTripper of another concrete type, put into the exported field.
ForeignHandle == [tab |-> "foreign", data |-> "&foreign"]

NoClient == [Endpoint |-> "", dialer |-> [Timeout |-> 0, KeepAlive |-> 0],
             transport |-> [MaxIdleConns |-> 0, MaxIdleConnsPerHost |-> 0,
                            IdleConnTimeout |-> 0, TLSHandshakeTimeout |-> 0,
                            ExpectContinueTimeout |-> 0, DialContext |-> "nil"],
             prefixes |-> << >>,
             HTTPClient |-> [Transport |-> NilHandle]]
NoDialer == [Timeout |-> 0, KeepAlive |-> 0]
NoRet == [client |-> "none", err |-> NilErr]
NoResp == [StatusCode |-> 0, Body |-> "nil"]

\* Options (values of type Option).  Fail stands for an option written by
\* the caller whose function returns an error.
Timeout(timeout) == [kind |-> "Timeout", n |-> timeout, name |-> "", uri |-> ""]
MaxIdleConns(n) == [kind |-> "MaxIdleConns", n |-> n, name |-> "", uri |-> ""]
IdleConnTimeout(timeout) ==
    [kind |-> "IdleConnTimeout", n |-> timeout, name |-> "", uri |-> ""]
Prefix(prefix, uri) == [kind |-> "Prefix", n |-> 0, name |-> prefix, uri |-> uri]
Fail == [kind |-> "Fail", n |-> 0, name |-> "", uri |-> ""]

\* MapSet that keeps the entry a key already has.
MapSetKeepsFirst(m, k, v) ==
    [x \in DOMAIN m \cup {k} |-> IF x \in DOMAIN m THEN m[x] ELSE v]

\* m[k] = v of a Go map.
MapSet(m, k, v) == [x \in DOMAIN m \cup {k} |-> IF x = k THEN v ELSE m[x]]

\* ApplyOption with a Timeout that forgets the keep-alive.
ApplyOptionTimeoutOnly(c, o) ==
    CASE o.kind = "Timeout" ->
           [c |-> [c EXCEPT !.dialer.Timeout = o.n], err |-> NilErr]
      [] o.kind = "MaxIdleConns" ->
           [c |-> [c EXCEPT !.transport.MaxIdleConns = o.n], err |-> NilErr]
      [] o.kind = "IdleConnTimeout" ->
           [c |-> [c EXCEPT !.transport.IdleConnTimeout = o.n], err |-> NilErr]
      [] o.kind = "Prefix" ->
           [c |-> [c EXCEPT !.prefixes = MapSet(c.prefixes, o.name, o.uri)],
            err |-> NilErr]
      [] OTHER -> [c |-> c, err |-> ErrOption]

\* ApplyOption with a Timeout that sets the idle-connection timeout as well.
ApplyOptionTimeoutAll(c, o) ==
    CASE o.kind = "Timeout" ->
           [c |-> [c EXCEPT !.dialer.Timeout = o.n, !.dialer.KeepAlive = o.n,
                            !.transport.IdleConnTimeout = o.n],
            err |-> NilErr]
      [] o.kind = "MaxIdleConns" ->
           [c |-> [c EXCEPT !.transport.MaxIdleConns = o.n], err |-> NilErr]
      [] o.kind = "IdleConnTimeout" ->
           [c |-> [c EXCEPT !.transport.IdleConnTimeout = o.n], err |-> NilErr]
      [] o.kind = "Prefix" ->
           [c |-> [c EXCEPT !.prefixes = MapSet(c.prefixes, o.name, o.uri)],
            err |-> NilErr]
      [] OTHER -> [c |-> c, err |-> ErrOption]

\* The call opt(c): the client after the call and the error returned.
ApplyOption(c, o) ==
    CASE o.kind = "Timeout" ->
           [c |-> [c EXCEPT !.dialer.Timeout = o.n, !.dialer.KeepAlive = o.n],
            err |-> NilErr]
      [] o.kind = "MaxIdleConns" ->
           [c |-> [c EXCEPT !.transport.MaxIdleConns = o.n], err |-> NilErr]
      [] o.kind = "IdleConnTimeout" ->
           [c |-> [c EXCEPT !.transport.IdleConnTimeout = o.n], err |-> NilErr]
      [] o.kind = "Prefix" ->
           [c |-> [c EXCEPT !.prefixes = MapSet(c.prefixes, o.name, o.uri)],
            err |-> NilErr]
      [] OTHER -> [c |-> c, err |-> ErrOption]

----
\* Inputs.
Options == {Timeout(5), Timeout(60), MaxIdleConns(10), IdleConnTimeout(120),
            Prefix("foo", "urn:a"), Prefix("foo", "urn:b"),
            Prefix("bar", "urn:a"), Fail}
LifeOptions == {Timeout(5), MaxIdleConns(10), Prefix("foo", "urn:a"), Fail}
Endpoints == {"http://example.org/sparql", "http://[::1"}
Statuses == {200, 204, 404}
Contexts == {"live", "done"}

SeqsUpTo(S, n) == UNION {[1..k -> S] : k \in 0..n}

\* url.Parse accepts the endpoint (http.NewRequest fails otherwise).
ValidURL(u) == u = "http://example.org/sparql"

----
\* New, lines 62-90.

InitWith(optLists, procs) ==
    /\ callers = procs
    /\ endpoint \in Endpoints
    /\ opts \in optLists
    /\ newPc = "L63"
    /\ i = 0
    /\ applied = << >>
    /\ dialer = NoDialer
    /\ client = NoClient
    /\ newRet = NoRet
    /\ pc = [p \in procs |-> "idle"]
    /\ op = [p \in procs |-> "none"]
    /\ ret = [p \in procs |-> NilErr]
    /\ calls = 0
    /\ closedAtCall = [p \in procs |-> FALSE]
    /\ okAtCall = [p \in procs |-> 0]
    /\ okCloses = 0
    /\ closeCalls = 0
    /\ poolReleases = 0
    /\ tab = [p \in procs |-> "nil"]
    /\ transport = [p \in procs |-> "nil"]
    /\ stored = [p \in procs |-> "none"]
    /\ ctx = [p \in procs |-> "live"]
    /\ resp = [p \in procs |-> NoResp]
    /\ doErr = [p \in procs |-> NilErr]
    /\ deferred = [p \in procs |-> FALSE]
    /\ pending = [p \in procs |-> NilErr]
    /\ bodyReleases = [p \in procs |-> 0]
    /\ closeFailed = [p \in procs |-> FALSE]
    /\ logged = [p \in procs |-> 0]

\* Lines 68-83: the client literal, with dialer d copied into it, and the
\* binding of its transport as the RoundTripper of its HTTPClient.
NewClient(ep, d) ==
    [Endpoint |-> ep,
     dialer |-> d,
     transport |-> [MaxIdleConns |-> 100,
                    MaxIdleConnsPerHost |-> 100,
                    IdleConnTimeout |-> 90,
                    TLSHandshakeTimeout |-> 10,
                    ExpectContinueTimeout |-> 1,
                    DialContext |-> "dialer.DialContext"],
     prefixes |-> << >>,
     HTTPClient |-> [Transport |-> OwnHandle]]

\* Lines 84-88 as a function: the client after the loop over the list os.
RECURSIVE RunOptions(_, _)
RunOptions(c, os) ==
    IF os = << >> THEN c
    ELSE LET r == ApplyOption(c, Head(os)) IN
           IF r.err # NilErr THEN r.c ELSE RunOptions(r.c, Tail(os))

\* Lines 63-83: the dialer, the client with its defaults, and the binding of
\* the transport as the client's RoundTripper.  client.dialer is a copy of
\* the local dialer; transport.DialContext is the method value of the local.
NewConstruct ==
    /\ newPc = "L63"
    /\ dialer' = [Timeout |-> 30, KeepAlive |-> 30]
    /\ client' = NewClient(endpoint, dialer')
    /\ i' = 1
    /\ newPc' = "L84"
    /\ UNCHANGED <<callers, endpoint, opts, applied, newRet, callVars, pingVars>>

\* NewApplyOpt with a loop that notes the error and goes on to the next option.
NewApplyOptGoesOn ==
    /\ newPc = "L84"
    /\ i <= Len(opts)
    /\ LET r == ApplyOption(client, opts[i]) IN
         /\ client' = r.c
         /\ applied' = Append(applied, i)
         /\ IF r.err # NilErr /\ i = Len(opts)
              THEN /\ newRet' = [client |-> "nil", err |-> r.err]
                   /\ newPc' = "returned"
                   /\ i' = i
              ELSE /\ newRet' = newRet
                   /\ newPc' = "L84"
                   /\ i' = i + 1
    /\ UNCHANGED <<callers, endpoint, opts, dialer, callVars, pingVars>>

\* Lines 84-88: one iteration of the loop over opts.
NewApplyOpt ==
    /\ newPc = "L84"
    /\ i <= Len(opts)
    /\ LET r == ApplyOption(client, opts[i]) IN
         /\ client' = r.c
         /\ applied' = Append(applied, i)
         /\ IF r.err # NilErr
              THEN /\ newRet' = [client |-> "nil", err |-> r.err]
                   /\ newPc' = "returned"
                   /\ i' = i
              ELSE /\ newRet' = newRet
                   /\ newPc' = "L84"
                   /\ i' = i + 1
    /\ UNCHANGED <<callers, endpoint, opts, dialer, callVars, pingVars>>

\* Line 89: every option succeeded.
NewReturn ==
    /\ newPc = "L84"
    /\ i > Len(opts)
    /\ newRet' = [client |-> "client", err |-> NilErr]
    /\ newPc' = "returned"
    /\ UNCHANGED <<callers, endpoint, opts, i, applied, dialer, client,
                   callVars, pingVars>>

NextNew == NewConstruct \/ NewApplyOpt \/ NewReturn

InitNew == InitWith(SeqsUpTo(Options, MaxOpts), {})

SpecNew == InitNew /\ [][NextNew]_vars

----
\* The callers of the client New returned.

newFrame == <<callers, endpoint, opts, newPc, i, applied, dialer, newRet>>
closeLocals == <<tab, transport, stored>>
hist == <<calls, closedAtCall, okAtCall, okCloses, closeCalls>>

\* New returned a client, and no goroutine has brought the program down.
Ready ==
    /\ newPc = "returned"
    /\ newRet.err = NilErr
    /\ \A q \in callers : pc[q] # "panicked"

Handle == client.HTTPClient.Transport

\* A caller enters an operation: its locals are fresh.
Enter(p, name, c) ==
    /\ Ready
    /\ pc[p] = "idle"
    /\ calls < MaxCalls
    /\ calls' = calls + 1
    /\ op' = [op EXCEPT ![p] = name]
    /\ ret' = [ret EXCEPT ![p] = NilErr]
    /\ closedAtCall' = [closedAtCall EXCEPT ![p] = (Handle.tab = "nil")]
    /\ okAtCall' = [okAtCall EXCEPT ![p] = okCloses]
    /\ tab' = [tab EXCEPT ![p] = "nil"]
    /\ transport' = [transport EXCEPT ![p] = "nil"]
    /\ stored' = [stored EXCEPT ![p] = "none"]
    /\ ctx' = [ctx EXCEPT ![p] = c]
    /\ resp' = [resp EXCEPT ![p] = NoResp]
    /\ doErr' = [doErr EXCEPT ![p] = NilErr]
    /\ deferred' = [deferred EXCEPT ![p] = FALSE]
    /\ pending' = [pending EXCEPT ![p] = NilErr]
    /\ bodyReleases' = [bodyReleases EXCEPT ![p] = 0]
    /\ closeFailed' = [closeFailed EXCEPT ![p] = FALSE]
    /\ logged' = [logged EXCEPT ![p] = 0]

\* The operation of caller p returns e.
Return(p, e) ==
    /\ pc' = [pc EXCEPT ![p] = "idle"]
    /\ ret' = [ret EXCEPT ![p] = e]

\* The goroutine of caller p panics: the program stops.
Crash(p) ==
    /\ pc' = [pc EXCEPT ![p] = "panicked"]
    /\ ret' = [ret EXCEPT ![p] = Panic]

Goto(p, l) ==
    /\ pc' = [pc EXCEPT ![p] = l]
    /\ ret' = ret

----
\* Close, lines 93-104.

CloseCall(p) ==
    /\ Enter(p, "Close", "live")
    /\ pc' = [pc EXCEPT ![p] = "L94"]
    /\ closeCalls' = closeCalls + 1
    /\ UNCHANGED <<newFrame, client, okCloses, poolReleases>>

\* CloseL94 with a Close of a closed client that is accepted in silence.
CloseL94Idempotent(p) ==
    /\ Ready
    /\ pc[p] = "L94"
    /\ IF Handle.tab = "nil"
         THEN Return(p, NilErr)
         ELSE Goto(p, "L97")
    /\ UNCHANGED <<newFrame, client, op, hist, poolReleases, closeLocals,
                   pingVars>>

\* CloseL94 with a second Close that is accepted and binds the transport again.
CloseL94Reopens(p) ==
    /\ Ready
    /\ pc[p] = "L94"
    /\ IF Handle.tab = "nil"
         THEN /\ Return(p, NilErr)
              /\ client' = [client EXCEPT !.HTTPClient.Transport = OwnHandle]
         ELSE /\ Goto(p, "L97")
              /\ client' = client
    /\ UNCHANGED <<newFrame, op, hist, poolReleases, closeLocals, pingVars>>

\* Lines 94-96: the handle is compared with nil.
CloseL94(p) ==
    /\ Ready
    /\ pc[p] = "L94"
    /\ IF Handle.tab = "nil"
         THEN Return(p, ErrAlreadyClosed)
         ELSE Goto(p, "L97")
    /\ UNCHANGED <<newFrame, client, op, hist, poolReleases, closeLocals,
                   pingVars>>

\* CloseL97 that drops a handle of the wrong type before it reports it.
CloseL97Clears(p) ==
    /\ Ready
    /\ pc[p] = "L97"
    /\ tab' = [tab EXCEPT ![p] = Handle.tab]
    /\ IF Handle.tab # "*http.Transport"
         THEN /\ Return(p, ErrUnknownRoundTripper)
              /\ client' = [client EXCEPT !.HTTPClient.Transport = NilHandle]
         ELSE /\ Goto(p, "L97data")
              /\ client' = client
    /\ UNCHANGED <<newFrame, op, hist, poolReleases, transport, stored,
                   pingVars>>

\* Lines 97-100: the type assertion reads the type word of the handle.
CloseL97(p) ==
    /\ Ready
    /\ pc[p] = "L97"
    /\ tab' = [tab EXCEPT ![p] = Handle.tab]
    /\ IF Handle.tab # "*http.Transport"
         THEN Return(p, ErrUnknownRoundTripper)
         ELSE Goto(p, "L97data")
    /\ UNCHANGED <<newFrame, client, op, hist, poolReleases, transport, stored,
                   pingVars>>

\* Line 97: the type assertion reads the data word of the handle.
CloseL97Data(p) ==
    /\ Ready
    /\ pc[p] = "L97data"
    /\ transport' = [transport EXCEPT ![p] = Handle.data]
    /\ Goto(p, "L101")
    /\ UNCHANGED <<newFrame, client, op, hist, poolReleases, tab, stored,
                   pingVars>>

\* Line 101: transport.CloseIdleConnections(); a nil *http.Transport panics.
CloseL101(p) ==
    /\ Ready
    /\ pc[p] = "L101"
    /\ IF transport[p] = "nil"
         THEN /\ Crash(p)
              /\ poolReleases' = poolReleases
         ELSE /\ Goto(p, "L102")
              /\ poolReleases' = poolReleases + 1
    /\ UNCHANGED <<newFrame, client, op, hist, closeLocals, pingVars>>

\* StoreNil with the store left out.
StoreNilLeftOut(h, w) == h

\* Line 102: the store of one word of HTTPClient.Transport = nil.
StoreNil(h, w) == [h EXCEPT ![w] = "nil"]

\* Line 102: the store of nil writes the two words of the handle, in an
\* order the build chooses; this is the first of the two.
CloseL102(p) ==
    /\ Ready
    /\ pc[p] = "L102"
    /\ \E w \in {"tab", "data"} :
         /\ stored' = [stored EXCEPT ![p] = w]
         /\ client' = [client EXCEPT !.HTTPClient.Transport = StoreNil(@, w)]
    /\ Goto(p, "L102b")
    /\ UNCHANGED <<newFrame, op, hist, poolReleases, tab, transport, pingVars>>

\* CloseL103 that drops the prefix mapping as well.
CloseL103ClearsPrefixes(p) ==
    /\ Ready
    /\ pc[p] = "L102b"
    /\ client' = [client EXCEPT !.HTTPClient.Transport =
                     StoreNil(@, IF stored[p] = "tab" THEN "data" ELSE "tab"),
                                !.prefixes = << >>]
    /\ okCloses' = okCloses + 1
    /\ Return(p, NilErr)
    /\ UNCHANGED <<newFrame, op, calls, closedAtCall, okAtCall, closeCalls,
                   poolReleases, closeLocals, pingVars>>

\* Lines 102-103: the second word of the store, and the return of nil.
CloseL103(p) ==
    /\ Ready
    /\ pc[p] = "L102b"
    /\ client' = [client EXCEPT !.HTTPClient.Transport =
                     StoreNil(@, IF stored[p] = "tab" THEN "data" ELSE "tab")]
    /\ okCloses' = okCloses + 1
    /\ Return(p, NilErr)
    /\ UNCHANGED <<newFrame, op, calls, closedAtCall, okAtCall, closeCalls,
                   poolReleases, closeLocals, pingVars>>

----
\* Ping, lines 107-124.

PingCall(p) ==
    /\ \E c \in Contexts : Enter(p, "Ping", c)
    /\ pc' = [pc EXCEPT ![p] = "L108"]
    /\ UNCHANGED <<newFrame, client, okCloses, closeCalls, poolReleases>>

\* PingL108 with the error of http.NewRequest ignored.
PingL108Ignores(p) ==
    /\ Ready
    /\ pc[p] = "L108"
    /\ Goto(p, "L113")
    /\ UNCHANGED <<newFrame, client, op, hist, poolReleases, closeLocals,
                   pingVars>>

\* Lines 108-111: http.NewRequest parses the endpoint.
PingL108(p) ==
    /\ Ready
    /\ pc[p] = "L108"
    /\ IF ValidURL(client.Endpoint)
         THEN Goto(p, "L113")
         ELSE Return(p, ErrNewRequest)
    /\ UNCHANGED <<newFrame, client, op, hist, poolReleases, closeLocals,
                   pingVars>>

\* Line 113, in HTTPClient.Do: the RoundTripper is the handle, or
\* http.DefaultTransport when the handle is nil.  This reads the type word.
PingL113(p) ==
    /\ Ready
    /\ pc[p] = "L113"
    /\ tab' = [tab EXCEPT ![p] = Handle.tab]
    /\ IF Handle.tab = "nil"
         THEN /\ transport' = [transport EXCEPT ![p] = "http.DefaultTransport"]
              /\ Goto(p, "L113send")
         ELSE /\ transport' = transport
              /\ Goto(p, "L113data")
    /\ UNCHANGED <<newFrame, client, op, hist, poolReleases, stored, pingVars>>

\* Line 113, in HTTPClient.Do: the read of the data word of the handle.
PingL113Data(p) ==
    /\ Ready
    /\ pc[p] = "L113data"
    /\ transport' = [transport EXCEPT ![p] = Handle.data]
    /\ Goto(p, "L113send")
    /\ UNCHANGED <<newFrame, client, op, hist, poolReleases, tab, stored,
                   pingVars>>

\* PingL113Send with a request that is not bound to ctx.
PingL113SendUnbound(p) ==
    /\ Ready
    /\ pc[p] = "L113send"
    /\ IF transport[p] = "nil"
         THEN Crash(p)
         ELSE Goto(p, "L113wait")
    /\ UNCHANGED <<newFrame, client, op, hist, poolReleases, closeLocals,
                   pingVars>>

\* Lines 113-116: the RoundTripper takes the request.  A nil *http.Transport
\* panics; an http.Transport gives the context's error when ctx is done
\* already (a RoundTripper of another kind need not look at ctx); otherwise
\* the request is in flight.
PingL113Send(p) ==
    /\ Ready
    /\ pc[p] = "L113send"
    /\ IF transport[p] = "nil"
         THEN /\ Crash(p)
              /\ doErr' = doErr
         ELSE IF ctx[p] # "live" /\ transport[p] # "&foreign"
           THEN /\ doErr' = [doErr EXCEPT ![p] = ErrContext]
                /\ Return(p, ErrContext)
           ELSE /\ doErr' = doErr
                /\ Goto(p, "L113wait")
    /\ UNCHANGED <<newFrame, client, op, hist, poolReleases, closeLocals, ctx,
                   resp, deferred, pending, bodyReleases, closeFailed, logged>>

\* Lines 113-116: the exchange ends: the endpoint answers with a status, or
\* the exchange fails (s = 0).
PingL113Answer(p) ==
    /\ Ready
    /\ pc[p] = "L113wait"
    /\ \E s \in Statuses \cup {0} :
         IF s = 0
           THEN /\ doErr' = [doErr EXCEPT ![p] = ErrDial]
                /\ resp' = resp
                /\ Return(p, ErrDial)
           ELSE /\ doErr' = doErr
                /\ resp' = [resp EXCEPT ![p] =
                              [StatusCode |-> s, Body |-> "open"]]
                /\ Goto(p, "L117")
    /\ UNCHANGED <<newFrame, client, op, hist, poolReleases, closeLocals, ctx,
                   deferred, pending, bodyReleases, closeFailed, logged>>

\* PingL113Abort that honours only a context that was done at the call.
PingL113AbortOnlyDone(p) ==
    /\ Ready
    /\ pc[p] = "L113wait"
    /\ ctx[p] = "done"
    /\ transport[p] # "&foreign"
    /\ doErr' = [doErr EXCEPT ![p] = ErrContext]
    /\ Return(p, ErrContext)
    /\ UNCHANGED <<newFrame, client, op, hist, poolReleases, closeLocals, ctx,
                   resp, deferred, pending, bodyReleases, closeFailed, logged>>

\* Lines 113-116: the request carries ctx (request.WithContext(ctx)): when
\* ctx is done while the request is in flight, Do gives up with the
\* context's error.
PingL113Abort(p) ==
    /\ Ready
    /\ pc[p] = "L113wait"
    /\ ctx[p] # "live"
    /\ doErr' = [doErr EXCEPT ![p] = ErrContext]
    /\ Return(p, ErrContext)
    /\ UNCHANGED <<newFrame, client, op, hist, poolReleases, closeLocals, ctx,
                   resp, deferred, pending, bodyReleases, closeFailed, logged>>

\* Cancel that ends the context of every Ping in progress.
CancelAll(p) ==
    /\ Ready
    /\ op[p] = "Ping"
    /\ pc[p] \notin {"idle", "panicked"}
    /\ ctx[p] = "live"
    /\ ctx' = [q \in callers |->
                 IF op[q] = "Ping" /\ pc[q] \notin {"idle", "panicked"}
                   THEN "cancelled" ELSE ctx[q]]
    /\ UNCHANGED <<newFrame, client, callVars, resp, doErr, deferred, pending,
                   bodyReleases, closeFailed, logged>>

\* Line 107: the ctx of a Ping in progress becomes done (its owner cancels
\* it, or its deadline passes).
Cancel(p) ==
    /\ Ready
    /\ op[p] = "Ping"
    /\ pc[p] \notin {"idle", "panicked"}
    /\ ctx[p] = "live"
    /\ ctx' = [ctx EXCEPT ![p] = "cancelled"]
    /\ UNCHANGED <<newFrame, client, callVars, resp, doErr, deferred, pending,
                   bodyReleases, closeFailed, logged>>

\* Lines 117-118: the defer statement (and the debug trace).
PingL117(p) ==
    /\ Ready
    /\ pc[p] = "L117"
    /\ deferred' = [deferred EXCEPT ![p] = TRUE]
    /\ Goto(p, "L120")
    /\ UNCHANGED <<newFrame, client, op, hist, poolReleases, closeLocals, ctx,
                   resp, doErr, pending, bodyReleases, closeFailed, logged>>

\* PingL120 with a status test that lets every status below 400 pass.
PingL120Below400(p) ==
    /\ Ready
    /\ pc[p] = "L120"
    /\ pending' = [pending EXCEPT ![p] =
                     IF resp[p].StatusCode >= 400
                       THEN ErrStatus(resp[p].StatusCode)
                       ELSE NilErr]
    /\ Goto(p, "return")
    /\ UNCHANGED <<newFrame, client, op, hist, poolReleases, closeLocals, ctx,
                   resp, doErr, deferred, bodyReleases, closeFailed, logged>>

\* Lines 120-123: the status test sets the value to return.
PingL120(p) ==
    /\ Ready
    /\ pc[p] = "L120"
    /\ pending' = [pending EXCEPT ![p] =
                     IF resp[p].StatusCode # StatusOK
                       THEN ErrStatus(resp[p].StatusCode)
                       ELSE NilErr]
    /\ Goto(p, "return")
    /\ UNCHANGED <<newFrame, client, op, hist, poolReleases, closeLocals, ctx,
                   resp, doErr, deferred, bodyReleases, closeFailed, logged>>

\* Logger.LogCloseError(resp.Body): closes the body and, when the close
\* fails, logs the error and drops it.
LogCloseError(p, failed) ==
    /\ resp' = [resp EXCEPT ![p].Body = "closed"]
    /\ bodyReleases' = [bodyReleases EXCEPT ![p] = @ + 1]
    /\ closeFailed' = [closeFailed EXCEPT ![p] = failed]
    /\ logged' = [logged EXCEPT ![p] = IF failed THEN @ + 1 ELSE @]

\* PingReturn that runs the deferred call only when Ping returns nil.
PingReturnLeaks(p) ==
    /\ Ready
    /\ pc[p] = "return"
    /\ IF deferred[p] /\ pending[p] = NilErr
         THEN \E failed \in BOOLEAN : LogCloseError(p, failed)
         ELSE UNCHANGED <<resp, bodyReleases, closeFailed, logged>>
    /\ Return(p, pending[p])
    /\ UNCHANGED <<newFrame, client, op, hist, poolReleases, closeLocals, ctx,
                   doErr, deferred, pending>>

\* Lines 117, 121, 123: the return runs the deferred call, whose outcome has
\* no way to the (unnamed) result.
PingReturn(p) ==
    /\ Ready
    /\ pc[p] = "return"
    /\ IF deferred[p]
         THEN \E failed \in BOOLEAN : LogCloseError(p, failed)
         ELSE UNCHANGED <<resp, bodyReleases, closeFailed, logged>>
    /\ Return(p, pending[p])
    /\ UNCHANGED <<newFrame, client, op, hist, poolReleases, closeLocals, ctx,
                   doErr, deferred, pending>>

----
\* An Option is a function value: a caller may call it on the client it holds.
OptionCall(p) ==
    /\ Enter(p, "Option", "live")
    /\ \E o \in LifeOptions :
         LET r == ApplyOption(client, o) IN
           /\ client' = r.c
           /\ ret' = [ret EXCEPT ![p] = r.err]
    /\ pc' = pc
    /\ UNCHANGED <<newFrame, okCloses, closeCalls, poolReleases>>

----
Next ==
    \/ NewConstruct
    \/ NewApplyOpt
    \/ NewReturn
    \/ \E p \in callers : CloseCall(p)
    \/ \E p \in callers : CloseL94(p)
    \/ \E p \in callers : CloseL97(p)
    \/ \E p \in callers : CloseL97Data(p)
    \/ \E p \in callers : CloseL101(p)
    \/ \E p \in callers : CloseL102(p)
    \/ \E p \in callers : CloseL103(p)
    \/ \E p \in callers : PingCall(p)
    \/ \E p \in callers : PingL108(p)
    \/ \E p \in callers : PingL113(p)
    \/ \E p \in callers : PingL113Data(p)
    \/ \E p \in callers : PingL113Send(p)
    \/ \E p \in callers : PingL113Answer(p)
    \/ \E p \in callers : PingL113Abort(p)
    \/ \E p \in callers : Cancel(p)
    \/ \E p \in callers : PingL117(p)
    \/ \E p \in callers : PingL120(p)
    \/ \E p \in callers : PingReturn(p)
    \/ \E p \in callers : OptionCall(p)

Init == InitWith(SeqsUpTo(LifeOptions, MaxLifeOpts), {1})
Spec == Init /\ [][Next]_vars

\* Line 16: HTTPClient is an exported field; a caller stores a RoundTripper
\* of its own in c.HTTPClient.Transport.
AssignTransport(p) ==
    /\ Enter(p, "Assign", "live")
    /\ client' = [client EXCEPT !.HTTPClient.Transport = ForeignHandle]
    /\ pc' = pc
    /\ UNCHANGED <<newFrame, okCloses, closeCalls, poolReleases>>

NextForeign == Next \/ \E p \in callers : AssignTransport(p)

SpecForeign == Init /\ [][NextForeign]_vars

\* The steps of a Ping that its goroutine takes by itself: every one but the
\* answer of the endpoint, which may never come.
PingProgress(p) ==
    \/ PingL108(p)
    \/ PingL113(p)
    \/ PingL113Data(p)
    \/ PingL113Send(p)
    \/ PingL113Abort(p)
    \/ PingL117(p)
    \/ PingL120(p)
    \/ PingReturn(p)

\* The goroutine of a Ping is scheduled as long as it can take a step.
SpecLive == Init /\ [][Next]_vars /\ WF_vars(PingProgress(1))

InitConc == InitWith(SeqsUpTo(LifeOptions, MaxLifeOpts), {1, 2})
SpecConc == InitConc /\ [][Next]_vars

----
\* Properties.

Returned(p, name) == pc[p] = "idle" /\ op[p] = name
Ended(p, name) == pc[p] \in {"idle", "panicked"} /\ op[p] = name
Closed == newPc = "returned" /\ Handle.tab = "nil"

\* C1: a Ping issued while the handle is closed (nil) returns an error; it
\* neither returns nil nor panics, whatever the endpoint answers.
C1_PingOnClosedFails ==
    \A p \in callers :
        Ended(p, "Ping") /\ closedAtCall[p] =>
            pc[p] = "idle" /\ ret[p] # NilErr

\* C2: the first Close on the client a successful New returned gives nil
\* and leaves the handle nil.
C2_FirstCloseSucceeds ==
    \A p \in callers :
        Ended(p, "Close") /\ closeCalls = 1 =>
            /\ pc[p] = "idle"
            /\ ret[p] = NilErr
            /\ Handle = NilHandle
            /\ poolReleases = 1

C2_Witness ==
    \E p \in callers :
        /\ Returned(p, "Close")
        /\ closeCalls = 1
        /\ ret[p] = NilErr
        /\ Len(opts) > 0

\* C3: a Close that begins after a Close has returned nil gives "already
\* closed", leaves the handle nil, and no second Close ever returns nil.
C3_LaterCloseAlreadyClosed ==
    \A p \in callers :
        Ended(p, "Close") /\ okAtCall[p] >= 1 =>
            /\ pc[p] = "idle"
            /\ ret[p] = ErrAlreadyClosed
            /\ Handle = NilHandle
            /\ okCloses = 1

C3_Witness ==
    \E p \in callers :
        /\ Returned(p, "Close")
        /\ okAtCall[p] = 1
        /\ closeCalls = 3
        /\ ret[p] = ErrAlreadyClosed

\* C4: when all callers ran Close at the same time on the open client,
\* exactly one of them got nil, the others got "already closed", and
\* CloseIdleConnections ran once.
C4_OneCloserSucceeds ==
    (/\ Cardinality(callers) >= 2
     /\ \A p \in callers :
           Ended(p, "Close") /\ okAtCall[p] = 0 /\ ~closedAtCall[p])
    => /\ Cardinality({p \in callers : ret[p] = NilErr}) = 1
       /\ \A p \in callers : ret[p] \in {NilErr, ErrAlreadyClosed}
       /\ poolReleases = 1

\* The first option of the list whose function returns an error, 0 if none.
OptionFails(o) == ApplyOption(NoClient, o).err # NilErr
FirstFailing ==
    LET F == {k \in 1..Len(opts) : OptionFails(opts[k])} IN
      IF F = {} THEN 0 ELSE CHOOSE k \in F : \A j \in F : k <= j

\* C5: when the k-th option fails, New returns its error and no client, and
\* the functions of options k+1.. have not been called.
C5_FailFast ==
    newPc = "returned" /\ FirstFailing > 0 =>
        /\ newRet.client = "nil"
        /\ newRet.err = ApplyOption(NoClient, opts[FirstFailing]).err
        /\ applied = [j \in 1..FirstFailing |-> j]

C5_Witness ==
    /\ newPc = "returned"
    /\ newRet.err # NilErr
    /\ FirstFailing = 2
    /\ Len(opts) = 3

\* The value of the last option of kind k in the list, d if there is none.
LastOf(k, d) ==
    LET S == {j \in 1..Len(opts) : opts[j].kind = k} IN
      IF S = {} THEN d ELSE opts[CHOOSE j \in S : \A l \in S : l <= j].n

\* C6: for a list of Timeout, MaxIdleConns and IdleConnTimeout options, the
\* client New returns has each parameter at the value of the last option
\* that targets it, and at its default when no option targets it.
C6_LastOptionWins ==
    (/\ newPc = "returned"
     /\ \A j \in 1..Len(opts) :
           opts[j].kind \in {"Timeout", "MaxIdleConns", "IdleConnTimeout"})
    => /\ newRet = [client |-> "client", err |-> NilErr]
       /\ client.dialer.Timeout = LastOf("Timeout", 30)
       /\ client.dialer.KeepAlive = LastOf("Timeout", 30)
       /\ client.transport.MaxIdleConns = LastOf("MaxIdleConns", 100)
       /\ client.transport.IdleConnTimeout = LastOf("IdleConnTimeout", 90)

C6_Witness ==
    /\ newPc = "returned"
    /\ opts = <<Timeout(60), IdleConnTimeout(120), Timeout(5)>>
    /\ client.dialer.KeepAlive = 5
    /\ client.transport.MaxIdleConns = 100

\* C7: in the client New returns, the dialer whose DialContext the live
\* transport uses has the timeout and keep-alive of the client's dialer
\* configuration.
C7_LiveDialerConfigured ==
    newPc = "returned" /\ newRet.err = NilErr =>
        /\ Handle = OwnHandle
        /\ client.transport.DialContext = "dialer.DialContext"
        /\ dialer.Timeout = client.dialer.Timeout
        /\ dialer.KeepAlive = client.dialer.KeepAlive

\* C8: once the handle is closed, no step of Close, Ping or an option makes
\* it open again.
C8_ClosedIsAbsorbing == [][Closed => Closed']_vars

C8_Witness ==
    \E p \in callers :
        /\ Closed
        /\ okAtCall[p] = 1
        /\ calls = 3
        /\ Ended(p, "Ping") \/ Ended(p, "Option")

\* C9: on an open client Ping returns nil exactly when the exchange gave a
\* response of status 200; for another status the error carries the status
\* code, and a failed exchange returns the error the exchange gave.
C9_PingResult ==
    \A p \in callers :
        Ended(p, "Ping") /\ ~closedAtCall[p] =>
            /\ pc[p] = "idle"
            /\ ret[p] = NilErr <=> resp[p].StatusCode = StatusOK
            /\ resp[p] # NoResp /\ resp[p].StatusCode # StatusOK =>
                  /\ ret[p].err = "SPARQL ping error. status code"
                  /\ ret[p].code = resp[p].StatusCode
            /\ doErr[p] # NilErr => ret[p] = doErr[p] /\ resp[p] = NoResp

C9_Witness ==
    \E p \in callers :
        /\ Returned(p, "Ping")
        /\ ~closedAtCall[p]
        /\ resp[p].StatusCode = 204
        /\ ret[p].code = 204

\* C10: the body of a response Ping got is closed exactly once by the time
\* Ping returns, with status 200 or not; an error of that close is logged
\* and the value Ping returns is the one the status alone decides.
C10_BodyReleasedOnce ==
    \A p \in callers :
        /\ bodyReleases[p] <= 1
        /\ Ended(p, "Ping") =>
              IF resp[p] = NoResp
                THEN bodyReleases[p] = 0 /\ logged[p] = 0
                ELSE /\ bodyReleases[p] = 1
                     /\ resp[p].Body = "closed"
                     /\ logged[p] = (IF closeFailed[p] THEN 1 ELSE 0)
                     /\ ret[p] = IF resp[p].StatusCode = StatusOK
                                   THEN NilErr
                                   ELSE ErrStatus(resp[p].StatusCode)

C10_Witness ==
    \E p \in callers :
        /\ Returned(p, "Ping")
        /\ resp[p].StatusCode = 404
        /\ bodyReleases[p] = 1
        /\ closeFailed[p]
        /\ ret[p] = ErrStatus(404)

\* The Prefix options of the list, by position.
PrefixAt == {j \in 1..Len(opts) : opts[j].kind = "Prefix"}

\* C11: the prefix mapping of the client New returns has exactly one entry
\* for each name a Prefix option of the list gives, and the entry is the URI
\* of the last Prefix option of the list with that name.
C11_PrefixLastWins ==
    newPc = "returned" /\ newRet.err = NilErr =>
        /\ DOMAIN client.prefixes = {opts[j].name : j \in PrefixAt}
        /\ \A j \in PrefixAt :
              (\A l \in PrefixAt : l > j => opts[l].name # opts[j].name)
                  => client.prefixes[opts[j].name] = opts[j].uri

C11_Witness ==
    /\ newPc = "returned"
    /\ opts = <<Prefix("foo", "urn:a"), Prefix("bar", "urn:a"),
                Prefix("foo", "urn:b")>>
    /\ client.prefixes["foo"] = "urn:b"
    /\ DOMAIN client.prefixes = {"foo", "bar"}

\* C12: a Ping called with a ctx that is done already returns an error, and
\* no exchange with the endpoint is completed for it: Do gives no response.
C12_DoneContextFails ==
    \A p \in callers :
        op[p] = "Ping" /\ ctx[p] = "done" =>
            /\ resp[p] = NoResp
            /\ pc[p] # "L113wait"
            /\ Ended(p, "Ping") => pc[p] = "idle" /\ ret[p] # NilErr

C12_Witness ==
    \E p \in callers :
        /\ Returned(p, "Ping")
        /\ ctx[p] = "done"
        /\ ValidURL(client.Endpoint)
        /\ ret[p] = ErrContext
        /\ ~closedAtCall[p]

\* The dialer and transport configuration: the client's and the live dialer's.
Config == <<client.dialer, client.transport, dialer>>

\* C13: once New has returned the client, no step of a caller changes the
\* dialer or transport configuration.
C13_ConfigFixedAfterNew ==
    [][newPc = "returned" /\ newRet.err = NilErr => Config' = Config]_vars

\* What a Ping that has ended returns when its own exchange alone decides.
OwnOutcome(q) ==
    IF ~ValidURL(client.Endpoint) THEN ErrNewRequest
    ELSE IF resp[q] = NoResp THEN ErrDial
    ELSE IF resp[q].StatusCode = StatusOK THEN NilErr
    ELSE ErrStatus(resp[q].StatusCode)

\* A Ping of q with a ctx nobody cancelled has ended, another caller's Ping
\* had its ctx cancelled, and no Close was called.
UncancelledBesideCancelled(q) ==
    /\ Ended(q, "Ping")
    /\ ctx[q] = "live"
    /\ closeCalls = 0
    /\ \E p \in callers \ {q} : op[p] = "Ping" /\ ctx[p] = "cancelled"

\* The step that cancels the ctx of p's Ping touches nothing else.
CancelStepIsLocal ==
    \A p \in callers :
        ctx[p] = "live" /\ ctx'[p] = "cancelled" =>
            /\ client' = client
            /\ \A q \in callers \ {p} :
                  /\ ctx'[q] = ctx[q]
                  /\ pc'[q] = pc[q]
                  /\ ret'[q] = ret[q]
                  /\ resp'[q] = resp[q]
                  /\ doErr'[q] = doErr[q]

\* C14: cancelling the ctx of one Ping in flight leaves the handle and the
\* other callers as they are, and a Ping that runs beside it with a ctx not
\* cancelled returns what its own exchange decides, with the handle open.
C14_CancelIsLocal ==
    /\ [][CancelStepIsLocal]_vars
    /\ [](\A q \in {1, 2} :
             q \in callers /\ UncancelledBesideCancelled(q) =>
                 /\ pc[q] = "idle"
                 /\ ret[q] = OwnOutcome(q)
                 /\ ret[q] # ErrContext
                 /\ Handle = OwnHandle)

C14_Witness ==
    \E p \in callers : \E q \in callers \ {p} :
        /\ op[p] = "Ping" /\ pc[p] = "L113wait" /\ ctx[p] = "cancelled"
        /\ op[q] = "Ping" /\ pc[q] = "return" /\ ctx[q] = "live"
        /\ resp[q].StatusCode = StatusOK
        /\ Handle = OwnHandle

\* C15: a Ping whose ctx is done (cancelled, or past its deadline) returns in
\* the end, with an error when no response had come.
C15_DonePingReturns ==
    /\ (1 \in callers /\ op[1] = "Ping" /\ pc[1] # "idle" /\ ctx[1] # "live")
           ~> (pc[1] = "idle")
    /\ [](1 \in callers /\ Ended(1, "Ping") /\ ctx[1] # "live"
              /\ resp[1] = NoResp => ret[1] # NilErr)

C15_Witness ==
    /\ 1 \in callers
    /\ Returned(1, "Ping")
    /\ ctx[1] = "cancelled"
    /\ transport[1] = "&client.transport"
    /\ ret[1] = ErrContext

\* C16: with a malformed endpoint Ping returns the error of the request
\* construction: no RoundTripper is chosen, Do gives neither a response nor an
\* error, no body is held, and no step of that Ping changes the client.
C16_MalformedEndpoint ==
    /\ [](\A p \in {1, 2} :
             p \in callers /\ op[p] = "Ping" /\ ~ValidURL(client.Endpoint) =>
                 /\ pc[p] \in {"L108", "idle"}
                 /\ tab[p] = "nil" /\ transport[p] = "nil"
                 /\ resp[p] = NoResp /\ doErr[p] = NilErr
                 /\ bodyReleases[p] = 0
                 /\ pc[p] = "idle" => ret[p] = ErrNewRequest)
    /\ [][\A p \in callers :
             op'[p] = "Ping" /\ pc'[p] # pc[p] /\ ~ValidURL(client.Endpoint)
                 => client' = client /\ dialer' = dialer
                    /\ poolReleases' = poolReleases]_vars

C16_Witness ==
    \E p \in callers :
        /\ Returned(p, "Ping")
        /\ ~ValidURL(client.Endpoint)
        /\ ret[p] = ErrNewRequest
        /\ ctx[p] = "live"
        /\ Handle = OwnHandle

\* C17: a Close that finds a handle of another concrete type returns the
\* unknown RoundTripper error, calls CloseIdleConnections on nothing and
\* leaves the handle as it was, so that the next Close finds the same.
C17_ForeignHandleKept ==
    \A p \in callers :
        Ended(p, "Close") /\ tab[p] = "foreign" =>
            /\ pc[p] = "idle"
            /\ ret[p] = ErrUnknownRoundTripper
            /\ Handle = ForeignHandle
            /\ poolReleases = okAtCall[p]
            /\ okCloses = okAtCall[p]

C17_Witness ==
    \E p \in callers :
        /\ Returned(p, "Close")
        /\ tab[p] = "foreign"
        /\ closeCalls = 2
        /\ okCloses = 0
        /\ calls = 3
        /\ ret[p] = ErrUnknownRoundTripper

\* The field, or the prefix name, an option writes.
Target(o) == <<o.kind, o.name>>

\* The list os with the options at j and j+1 in the other order.
SwapAt(os, j) ==
    [k \in 1..Len(os) |->
        IF k = j THEN os[j + 1] ELSE IF k = j + 1 THEN os[j] ELSE os[k]]

\* C18: when two options next to each other in a list New accepts write
\* different fields (or different prefix names), New on the list with the
\* two in the other order gives the same client.
C18_OptionsCommute ==
    newPc = "returned" /\ newRet.err = NilErr =>
        \A j \in 1..(Len(opts) - 1) :
            Target(opts[j]) # Target(opts[j + 1]) =>
                client = RunOptions(NewClient(endpoint, dialer), SwapAt(opts, j))

C18_Witness ==
    /\ newPc = "returned"
    /\ opts = <<Timeout(5), Prefix("foo", "urn:a"), IdleConnTimeout(120)>>
    /\ client = RunOptions(NewClient(endpoint, dialer),
                           <<Prefix("foo", "urn:a"), Timeout(5),
                             IdleConnTimeout(120)>>)
    /\ client.dialer.Timeout = 5

\* Caller p takes a step of the operation name.
StepOf(p, name) == op'[p] = name /\ pc'[p] # pc[p]

\* C19: no step of Ping or Close changes the endpoint, the prefix mapping or
\* the dialer and transport configuration; no step of Ping changes the
\* handle; the handle changes only in the store of line 102, in a Close that
\* returns nil.
C19_Frame ==
    /\ [][\A p \in callers :
             StepOf(p, "Ping") \/ StepOf(p, "Close") =>
                 /\ client'.Endpoint = client.Endpoint
                 /\ client'.prefixes = client.prefixes
                 /\ Config' = Config
                 /\ StepOf(p, "Ping") => Handle' = Handle
                 /\ Handle' # Handle =>
                       /\ pc[p] \in {"L102", "L102b"}
                       /\ Handle'.tab = "nil" \/ Handle'.data = "nil"]_vars
    /\ [](newPc = "returned" /\ Handle # OwnHandle =>
              \/ okCloses >= 1
              \/ \E p \in callers : op[p] = "Close" /\ pc[p] = "L102b")

C19_Witness ==
    \E p \in callers :
        /\ Returned(p, "Ping")
        /\ okAtCall[p] = 1
        /\ Handle = NilHandle
        /\ client.prefixes # << >>
        /\ resp[p].StatusCode = StatusOK

====
